---- MODULE Spec2Model ----
(***************************************************************************)
(* Model of next-typed-route-codegen: the runtime path builder (buildPath,  *)
(* extractParamKeys, isDynamicRoute, routeToRegex, matchRoute), the         *)
(* directory scanner (scanRoutes), the generator (generate) and the init    *)
(* and watch commands of the cli.                                           *)
(*                                                                          *)
(* A JavaScript string is modelled as a sequence of one-character strings;  *)
(* a plain object used as a map is a function from keys to values.          *)
(***************************************************************************)
EXTENDS Integers, Sequences, FiniteSets, TLC

VARIABLES
  route,        \* the pattern argument of a path-builder call
  params,       \* the params argument of buildPath
  pathname,     \* the path argument of matchRoute and of the generated lookup
  appDir,       \* the directory tree under the app directory
  excludePath,  \* config.excludePath
  sortRoutes,   \* config.sortRoutes
  outputDir,    \* the files of the output directory
  op,           \* the last call
  ret,          \* what the last call returned or threw
  watcher,      \* watch: the timer, isGenerating and the generations in flight
  burst         \* the time since the last change and what it has started

vars == <<route, params, pathname, appDir, excludePath, sortRoutes, outputDir, op, ret,
          watcher, burst>>

watchState == <<watcher, burst>>

pathInputs == <<route, params, pathname>>

scanInputs == <<appDir, excludePath, sortRoutes>>

\* ---------------------------------------------------------------- bounds

\* A pattern or a path has at most MaxSegs '/'-delimited segments.
MaxSegs == 2

\* A directory of the tree lists at most MaxEntries entries.
MaxEntries == 2

\* ------------------------------------------------------- string helpers

Slash == "/"

RECURSIVE JoinSegs(_)
\* "/" + segments.join("/") of a non-empty list, without the leading slash's
\* special case: every segment is preceded by one "/".
JoinSegs(segs) ==
  IF segs = << >> THEN << >>
  ELSE <<Slash>> \o Head(segs) \o JoinSegs(Tail(segs))

\* "/" + segments.join("/"): the root (no segment) is "/".
PathOf(segs) == IF segs = << >> THEN <<Slash>> ELSE JoinSegs(segs)

RECURSIVE Split(_, _)
\* s.split(sep): the pieces between the separators.
Split(s, sep) ==
  IF \A i \in 1..Len(s) : s[i] # sep THEN <<s>>
  ELSE LET i == CHOOSE k \in 1..Len(s) :
                  s[k] = sep /\ \A m \in 1..(k - 1) : s[m] # sep
       IN <<SubSeq(s, 1, i - 1)>> \o Split(SubSeq(s, i + 1, Len(s)), sep)

\* The '/'-delimited segments of a path or pattern that starts with "/".
SegmentsOf(s) ==
  IF s # << >> /\ s[1] = Slash THEN Split(SubSeq(s, 2, Len(s)), Slash)
  ELSE Split(s, Slash)

RECURSIVE Concat(_)
Concat(ss) == IF ss = << >> THEN << >> ELSE Head(ss) \o Concat(Tail(ss))

\* ------------------------------------------- the placeholder regex

\* The position of the first "]" of s at or after i, 0 if there is none.
NextClose(s, i) ==
  IF \E j \in i..Len(s) : s[j] = "]"
  THEN CHOOSE j \in i..Len(s) : s[j] = "]" /\ \A m \in i..(j - 1) : s[m] # "]"
  ELSE 0

\* A mutant of PlaceholderAt: the name may be empty.
PlaceholderAtAllowEmpty(s, i) ==
  IF i <= Len(s) /\ s[i] = "["
  THEN LET j == NextClose(s, i + 1) IN IF j >= i + 1 THEN j ELSE 0
  ELSE 0

\* /\[([^\]]+)\]/ tried at position i of s: the position of the closing "]"
\* of the match, 0 when there is no match at i.  The greedy [^\]]+ stops at
\* the first "]", so the match needs at least one character before it.
PlaceholderAt(s, i) ==
  IF i <= Len(s) /\ s[i] = "["
  THEN LET j == NextClose(s, i + 1) IN IF j >= i + 2 THEN j ELSE 0
  ELSE 0

RECURSIVE PlaceholderScan(_, _)
\* The matches of the global regex /\[([^\]]+)\]/g in s from position i on,
\* leftmost first and non-overlapping, each as [from, to].
PlaceholderScan(s, i) ==
  IF i > Len(s) THEN << >>
  ELSE LET j == PlaceholderAt(s, i)
       IN IF j # 0 THEN <<[from |-> i, to |-> j]>> \o PlaceholderScan(s, j + 1)
          ELSE PlaceholderScan(s, i + 1)

\* ---------------------------------------------------------- path-builder

\* Marks "params" being undefined (the optional argument left out).
NoParams == [given |-> FALSE]

\* A supplied params object with the own properties of the map m.
Supplied(m) == [given |-> TRUE, map |-> m]

\* Marks a property read that yields undefined (no string: its one element
\* is not a character).
Undefined == <<"undefined">>

ConstructorKey == <<"c", "o", "n", "s", "t", "r", "u", "c", "t", "o", "r">>

ProtoKey == <<"_", "_", "p", "r", "o", "t", "o", "_", "_">>

\* The property names a plain object inherits from Object.prototype, as far
\* as the patterns of the model name them.
ObjectPrototypeKeys == { ConstructorKey, ProtoKey }

\* String(value) of an inherited property, what encodeURIComponent sees:
\* String(Object) for "constructor", String(Object.prototype) for "__proto__".
InheritedText(key) ==
  IF key = ConstructorKey
  THEN <<"f","u","n","c","t","i","o","n"," ","O","b","j","e","c","t","(",")",
         " ","{"," ","[","n","a","t","i","v","e"," ","c","o","d","e","]"," ","}">>
  ELSE <<"[","o","b","j","e","c","t"," ","O","b","j","e","c","t","]">>

\* obj[key] of a plain object: its own property, else the one it inherits
\* from Object.prototype, else undefined.
GetProperty(obj, key) ==
  IF key \in DOMAIN obj THEN obj[key]
  ELSE IF key \in ObjectPrototypeKeys THEN InheritedText(key)
  ELSE Undefined

\* obj[key] = value for a string value on an object made by {}: an own
\* property, except that the inherited setter of "__proto__" ignores a string.
SetProperty(obj, key, value) ==
  IF key = ProtoKey /\ key \notin DOMAIN obj THEN obj
  ELSE [x \in (DOMAIN obj) \cup {key} |-> IF x = key THEN value ELSE obj[x]]

\* encodeURIComponent of one character: the unreserved characters
\* (A-Z a-z 0-9 - _ . ! ~ * ' ( )) stay, the others become %XX.
EncodeChar(c) ==
  CASE c = "/" -> <<"%", "2", "F">>
    [] c = "%" -> <<"%", "2", "5">>
    [] c = " " -> <<"%", "2", "0">>
    [] c = "[" -> <<"%", "5", "B">>
    [] c = "]" -> <<"%", "5", "D">>
    [] c = "{" -> <<"%", "7", "B">>
    [] c = "}" -> <<"%", "7", "D">>
    [] OTHER -> <<c>>

EncodeURIComponent(s) == Concat([i \in 1..Len(s) |-> EncodeChar(s[i])])

\* extractParamKeys (runtime/path-builder): route.match(/\[([^\]]+)\]/g),
\* each match without its brackets (m.slice(1, -1)); [] when there is none.
ExtractParamKeys(r) ==
  LET matches == PlaceholderScan(r, 1)
  IN [k \in 1..Len(matches) |-> SubSeq(r, matches[k].from + 1, matches[k].to - 1)]

\* A mutant of IsDynamicRoute: /\[[^\]]*\]/.
IsDynamicRouteAllowEmpty(r) ==
  \E i \in 1..Len(r) : PlaceholderAtAllowEmpty(r, i) # 0

\* isDynamicRoute: /\[[^\]]+\]/.test(route).
IsDynamicRoute(r) == \E i \in 1..Len(r) : PlaceholderAt(r, i) # 0

RECURSIVE ReplacePlaceholders(_, _, _)
\* route.replace(/\[([^\]]+)\]/g, callback) from position i on: the text
\* outside the matches is copied, each match is replaced by the encoded
\* value; the first key whose value is undefined makes the callback throw.
ReplacePlaceholders(r, ps, i) ==
  IF i > Len(r) THEN [threw |-> FALSE, value |-> << >>]
  ELSE LET j == PlaceholderAt(r, i)
       IN IF j = 0
          THEN LET rest == ReplacePlaceholders(r, ps, i + 1)
               IN IF rest.threw THEN rest
                  ELSE [threw |-> FALSE, value |-> <<r[i]>> \o rest.value]
          ELSE LET key == SubSeq(r, i + 1, j - 1)
                   value == GetProperty(ps.map, key)
               IN IF value = Undefined
                  THEN [threw |-> TRUE, error |-> "Missing param", key |-> key]
                  ELSE LET rest == ReplacePlaceholders(r, ps, j + 1)
                       IN IF rest.threw THEN rest
                          ELSE [threw |-> FALSE,
                                value |-> EncodeURIComponent(value) \o rest.value]

\* buildPath(route, params).
BuildPath(r, ps) ==
  IF ps = NoParams THEN [threw |-> FALSE, value |-> r]
  ELSE ReplacePlaceholders(r, ps, 1)

\* ------------------------------------------------------- routeToRegex

Backslash == "\\"

\* The characters of the class [.*+?^${}()|[\]\\].
RegexSpecials ==
  { ".", "*", "+", "?", "^", "$", "{", "}", "(", ")", "|", "[", "]", Backslash }

\* s.replace(/[.*+?^${}()|[\]\\]/g, "\\$&"): a backslash before each special.
EscapeRegex(s) ==
  Concat([i \in 1..Len(s) |->
            IF s[i] \in RegexSpecials THEN <<Backslash, s[i]>> ELSE <<s[i]>>])

\* s.replace(/\//g, "\\/").
EscapeSlashes(s) ==
  Concat([i \in 1..Len(s) |-> IF s[i] = Slash THEN <<Backslash, Slash>> ELSE <<s[i]>>])

\* The replacement text "([^/]+)".
GroupText == <<"(", "[", "^", "/", "]", "+", ")">>

\* /\\\[([^\]]+)\\\]/ tried at position i of the escaped text e: the position
\* of the last character of the match, 0 when there is none.  [^\]]+ runs
\* greedily up to the next "]" and backtracks until "\]" follows.
EscapedPlaceholderAt(e, i) ==
  IF i + 1 <= Len(e) /\ e[i] = Backslash /\ e[i + 1] = "["
  THEN LET j == NextClose(e, i + 2)
           runEnd == IF j = 0 THEN Len(e) ELSE j - 1
           ks == { k \in (i + 2)..runEnd :
                     k + 2 <= Len(e) /\ e[k + 1] = Backslash /\ e[k + 2] = "]" }
       IN IF ks = {} THEN 0
          ELSE (CHOOSE k \in ks : \A m \in ks : m <= k) + 2
  ELSE 0

RECURSIVE ReplaceEscapedPlaceholders(_, _)
\* e.replace(/\\\[([^\]]+)\\\]/g, "([^/]+)") from position i on.
ReplaceEscapedPlaceholders(e, i) ==
  IF i > Len(e) THEN << >>
  ELSE LET j == EscapedPlaceholderAt(e, i)
       IN IF j # 0 THEN GroupText \o ReplaceEscapedPlaceholders(e, j + 1)
          ELSE <<e[i]>> \o ReplaceEscapedPlaceholders(e, i + 1)

\* routeToRegex: the source of new RegExp(`^${escaped}$`).
RouteToRegex(r) ==
  <<"^">> \o ReplaceEscapedPlaceholders(EscapeRegex(r), 1) \o <<"$">>

\* routePathToRegexString (codegen/scanner): the text put between the
\* slashes of a regex literal in the generated route table.
RoutePathToRegexString(r) ==
  <<"^">> \o ReplaceEscapedPlaceholders(EscapeSlashes(EscapeRegex(r)), 1) \o <<"$">>

\* ------------------------------------------- the regular-expression engine

Lit(c) == [kind |-> "lit", char |-> c]

Group == [kind |-> "group"]

AnchorStart == [kind |-> "start"]

AnchorEnd == [kind |-> "end"]

RECURSIVE ParseRegex(_, _)
\* The terms of a regex source made by the two converters, from position i
\* on: "\c" is the character c, an unescaped "(" opens the group ([^/]+),
\* "^" and "$" are the anchors, any other character stands for itself.
ParseRegex(src, i) ==
  IF i > Len(src) THEN << >>
  ELSE IF src[i] = Backslash /\ i + 1 <= Len(src)
       THEN <<Lit(src[i + 1])>> \o ParseRegex(src, i + 2)
  ELSE IF src[i] = "(" /\ SubSeq(src, i, i + Len(GroupText) - 1) = GroupText
       THEN <<Group>> \o ParseRegex(src, i + Len(GroupText))
  ELSE IF src[i] = "^" THEN <<AnchorStart>> \o ParseRegex(src, i + 1)
  ELSE IF src[i] = "$" THEN <<AnchorEnd>> \o ParseRegex(src, i + 1)
  ELSE <<Lit(src[i])>> \o ParseRegex(src, i + 1)

NoMatch == [matched |-> FALSE]

\* The length of the longest run of characters other than "/" of s from i.
RunLength(s, i) ==
  IF \E j \in i..Len(s) : s[j] = Slash
  THEN (CHOOSE j \in i..Len(s) : s[j] = Slash /\ \A m \in i..(j - 1) : s[m] # Slash) - i
  ELSE Len(s) - i + 1

RECURSIVE MatchFrom(_, _, _, _)
RECURSIVE MatchGroup(_, _, _, _, _)
\* The backtracking match of the terms ts[ti..] against s from position si:
\* NoMatch, or the captures in order.
MatchFrom(ts, ti, s, si) ==
  IF ti > Len(ts) THEN [matched |-> TRUE, captures |-> << >>]
  ELSE LET t == ts[ti]
       IN CASE t.kind = "start" ->
                 IF si = 1 THEN MatchFrom(ts, ti + 1, s, si) ELSE NoMatch
            [] t.kind = "end" ->
                 IF si = Len(s) + 1 THEN MatchFrom(ts, ti + 1, s, si) ELSE NoMatch
            [] t.kind = "lit" ->
                 IF si <= Len(s) /\ s[si] = t.char
                 THEN MatchFrom(ts, ti + 1, s, si + 1) ELSE NoMatch
            [] t.kind = "group" -> MatchGroup(ts, ti, s, si, RunLength(s, si))

\* The group ([^/]+) at term ti taking n characters, then fewer (greedy).
MatchGroup(ts, ti, s, si, n) ==
  IF n < 1 THEN NoMatch
  ELSE LET rest == MatchFrom(ts, ti + 1, s, si + n)
       IN IF rest.matched
          THEN [matched |-> TRUE,
                captures |-> <<SubSeq(s, si, si + n - 1)>> \o rest.captures]
          ELSE MatchGroup(ts, ti, s, si, n - 1)

RECURSIVE SearchFrom(_, _, _)
\* String.prototype.match / RegExp.prototype.test without the g flag: the
\* first start position from which the terms match.
SearchFrom(ts, s, start) ==
  IF start > Len(s) + 1 THEN NoMatch
  ELSE LET m == MatchFrom(ts, 1, s, start)
       IN IF m.matched THEN m ELSE SearchFrom(ts, s, start + 1)

\* str.match(regex) for the regex of the given source.
RegexMatch(s, src) == SearchFrom(ParseRegex(src, 1), s, 1)

\* ------------------------------------------------------ decodeURIComponent

HexDigits ==
  { "0", "1", "2", "3", "4", "5", "6", "7", "8", "9",
    "A", "B", "C", "D", "E", "F", "a", "b", "c", "d", "e", "f" }

\* The character of an escape %h1h2 below 0x80 (the escapes the paths of the
\* model hold; "?" stands for the rest of the ASCII table).
AsciiChar(h1, h2) ==
  CASE <<h1, h2>> = <<"2", "F">> -> "/"
    [] <<h1, h2>> = <<"2", "5">> -> "%"
    [] <<h1, h2>> = <<"2", "0">> -> " "
    [] <<h1, h2>> = <<"5", "B">> -> "["
    [] <<h1, h2>> = <<"5", "D">> -> "]"
    [] <<h1, h2>> = <<"7", "B">> -> "{"
    [] <<h1, h2>> = <<"7", "D">> -> "}"
    [] <<h1, h2>> = <<"4", "1">> -> "A"
    [] OTHER -> "?"

RECURSIVE DecodeURIComponent(_)
\* decodeURIComponent: a "%" must start an escape %XX; an escape of 0x80 or
\* more must be part of a well-formed UTF-8 sequence (the model's strings
\* hold none, so such an escape is malformed).  A malformed escape throws
\* URIError.
DecodeURIComponent(s) ==
  IF s = << >> THEN [threw |-> FALSE, value |-> << >>]
  ELSE IF s[1] # "%"
       THEN LET rest == DecodeURIComponent(Tail(s))
            IN IF rest.threw THEN rest
               ELSE [threw |-> FALSE, value |-> <<s[1]>> \o rest.value]
  ELSE IF Len(s) >= 3 /\ s[2] \in {"0", "1", "2", "3", "4", "5", "6", "7"}
          /\ s[3] \in HexDigits
       THEN LET rest == DecodeURIComponent(SubSeq(s, 4, Len(s)))
            IN IF rest.threw THEN rest
               ELSE [threw |-> FALSE, value |-> <<AsciiChar(s[2], s[3])>> \o rest.value]
  ELSE [threw |-> TRUE, error |-> "URIError"]

\* ------------------------------------------------------------ matchRoute

\* String(undefined), what decodeURIComponent makes of a missing capture.
UndefinedText == <<"u", "n", "d", "e", "f", "i", "n", "e", "d">>

\* match[index + 1].
CaptureAt(captures, index) ==
  IF index <= Len(captures) THEN captures[index] ELSE UndefinedText

RECURSIVE AssignKeys(_, _, _, _)
\* keys.forEach((key, index) => { result[key] = decodeURIComponent(...) })
\* from the k-th key on, starting with the object acc.
AssignKeys(keys, captures, k, acc) ==
  IF k > Len(keys) THEN [threw |-> FALSE, matched |-> TRUE, value |-> acc]
  ELSE LET d == DecodeURIComponent(CaptureAt(captures, k))
       IN IF d.threw THEN [threw |-> TRUE, error |-> d.error]
          ELSE AssignKeys(keys, captures, k + 1, SetProperty(acc, keys[k], d.value))

\* The empty object {}.
EmptyObject == [x \in {} |-> << >>]

\* matchRoute(pathname, pattern): null (matched = FALSE), the params object,
\* or an exception of decodeURIComponent.
MatchRoute(path, pattern) ==
  LET m == RegexMatch(path, RouteToRegex(pattern))
  IN IF ~m.matched THEN [threw |-> FALSE, matched |-> FALSE]
     ELSE AssignKeys(ExtractParamKeys(pattern), m.captures, 1, EmptyObject)

\* -------------------------------------------------------------- scanner

Chars(name) ==
  CASE name = "page.tsx" -> <<"p", "a", "g", "e", ".", "t", "s", "x">>
    [] name = "page.ts" -> <<"p", "a", "g", "e", ".", "t", "s">>
    [] name = "page.js" -> <<"p", "a", "g", "e", ".", "j", "s">>
    [] name = "layout.tsx" -> <<"l", "a", "y", "o", "u", "t", ".", "t", "s", "x">>
    [] name = "src/app" -> <<"s", "r", "c", "/", "a", "p", "p">>

\* A directory entry (fs.Dirent with what lies behind it): a file with its
\* content, or a directory with its own listing in readdir order.  A file's
\* content is its text cut into tokens: an identifier, a blank, a "(" or
\* another punctuation character.
File(name, content) ==
  [name |-> name, isDir |-> FALSE, content |-> content, entries |-> << >>,
   readable |-> TRUE]

Dir(name, entries) ==
  [name |-> name, isDir |-> TRUE, content |-> << >>, entries |-> entries,
   readable |-> TRUE]

\* The entry with its read permission taken away: readdirSync of such a
\* directory and readFileSync of such a file throw.
Unreadable(entry) ==
  [entry EXCEPT !.readable = FALSE, !.content = << >>, !.entries = << >>]

\* A variant of ReadDir: a directory that cannot be read counts as empty.
ReadDirBestEffort(dir) == [threw |-> FALSE, entries |-> dir.entries]

\* fs.readdirSync(dir, { withFileTypes: true }).
ReadDir(dir) ==
  IF dir.readable THEN [threw |-> FALSE, entries |-> dir.entries]
  ELSE [threw |-> TRUE]

\* fs.readFileSync(filePath, "utf-8").
ReadFile(file) ==
  IF file.readable THEN [threw |-> FALSE, content |-> file.content]
  ELSE [threw |-> TRUE]

\* The identifiers among the tokens of the model's files (word characters).
WordTokens == { "createRoute", "createDynamicRoute", "x" }

\* A mutant of UsesRouteCreator: every page file counts.
UsesRouteCreatorAlways(content) == TRUE

\* usesRouteCreator: /\b(createRoute|createDynamicRoute)\s*\(/.test(content).
UsesRouteCreator(content) ==
  \E i \in 1..Len(content) :
    /\ content[i] \in {"createRoute", "createDynamicRoute"}
    /\ i = 1 \/ content[i - 1] \notin WordTokens
    /\ \E j \in (i + 1)..Len(content) :
         /\ content[j] = "("
         /\ \A m \in (i + 1)..(j - 1) : content[m] = " "

\* extractParamKeys (codegen/scanner), the scanner's own copy.
ScannerExtractParamKeys(routePath) ==
  LET matches == PlaceholderScan(routePath, 1)
  IN [k \in 1..Len(matches) |->
        SubSeq(routePath, matches[k].from + 1, matches[k].to - 1)]

\* The exclusion predicates a caller may configure: none, the one of the
\* generated config (/[@(]/.test(path)), one that drops the dynamic
\* directories (path.includes("[")) and one for a single path (path === "/a/a").
ExcludePredicates == { "undefined", "groups", "dynamic", "exact" }

\* excludePath(path) for a configured predicate.
ExcludePathHolds(pred, path) ==
  CASE pred = "groups" -> \E i \in 1..Len(path) : path[i] \in {"@", "("}
    [] pred = "dynamic" -> \E i \in 1..Len(path) : path[i] = "["
    [] pred = "exact" -> path = <<"/", "a", "/", "a">>

\* entry.name.startsWith("_").
IsPrivateName(name) == name # << >> /\ name[1] = "_"

\* entry.name === "page.tsx" || entry.name === "page.ts".
IsPageFile(name) == name = Chars("page.tsx") \/ name = Chars("page.ts")

\* A mutant of EnterDirectory: private directories are walked too.
EnterDirectoryIgnoringPrivate(name, currentPath, pred) ==
  [probed |-> pred # "undefined",
   enter |-> ~(pred # "undefined" /\ ExcludePathHolds(pred, currentPath))]

\* The decision of walk for a directory entry: whether excludePath is called
\* on currentPath, and whether the directory is walked.
EnterDirectory(name, currentPath, pred) ==
  IF IsPrivateName(name) THEN [probed |-> FALSE, enter |-> FALSE]
  ELSE IF pred # "undefined" /\ ExcludePathHolds(pred, currentPath)
       THEN [probed |-> TRUE, enter |-> FALSE]
       ELSE [probed |-> pred # "undefined", enter |-> TRUE]

\* A mutant of CurrentPath: the entry's own name only.
CurrentPathNameOnly(segments, name) == <<Slash>> \o name

\* currentPath = "/" + [...segments, entry.name].join("/").
CurrentPath(segments, name) == PathOf(Append(segments, name))

\* The scan so far: the routes pushed, the paths excludePath was called
\* with, and whether a read has thrown (and for which path).
NoRoutes == [threw |-> FALSE, path |-> << >>, routes |-> << >>, probes |-> << >>]

\* The exception of a failed read leaves walk: nothing more is scanned.
Thrown(acc, path) == [acc EXCEPT !.threw = TRUE, !.path = path]

RECURSIVE Walk(_, _, _, _, _, _)
\* walk(dir, segments) from the k-th entry of the listing on; acc holds the
\* routes pushed and the paths excludePath was called with so far, in order.
Walk(entries, k, dirPath, segments, pred, acc) ==
  IF acc.threw \/ k > Len(entries) THEN acc
  ELSE LET entry == entries[k]
           entryPath == dirPath \o <<Slash>> \o entry.name
       IN IF entry.isDir
          THEN LET currentPath == CurrentPath(segments, entry.name)
                   d == EnterDirectory(entry.name, currentPath, pred)
                   probed == IF d.probed
                             THEN [acc EXCEPT !.probes = Append(@, currentPath)]
                             ELSE acc
                   listing == ReadDir(entry)
               IN Walk(entries, k + 1, dirPath, segments, pred,
                       IF ~d.enter THEN probed
                       ELSE IF listing.threw THEN Thrown(probed, entryPath)
                       ELSE Walk(listing.entries, 1, entryPath,
                                 Append(segments, entry.name), pred, probed))
          ELSE IF ~IsPageFile(entry.name)
               THEN Walk(entries, k + 1, dirPath, segments, pred, acc)
          ELSE LET file == ReadFile(entry)
               IN IF file.threw THEN Thrown(acc, entryPath)
                  ELSE IF UsesRouteCreator(file.content)
                  THEN LET routePath == PathOf(segments)
                           keys == ScannerExtractParamKeys(routePath)
                       IN Walk(entries, k + 1, dirPath, segments, pred,
                               [acc EXCEPT !.routes = Append(@,
                                  [filePath |-> entryPath,
                                   routePath |-> routePath,
                                   params |-> keys,
                                   isStatic |-> Len(keys) = 0])])
                  ELSE Walk(entries, k + 1, dirPath, segments, pred, acc)

\* A variant of ScanRoutes: the routes come back in the reverse order.
ScanRoutesReversed(dir, pred) ==
  LET acc == Walk(dir.entries, 1, dir.path, << >>, pred, NoRoutes)
      n == Len(acc.routes)
  IN [threw |-> FALSE, routes |-> [k \in 1..n |-> acc.routes[n + 1 - k]],
      probes |-> acc.probes]

\* A variant of ScanRoutes: a root that does not exist is an error.
ScanRoutesRequireRoot(dir, pred) ==
  IF ~dir.exists THEN [threw |-> TRUE, error |-> "ENOENT", path |-> dir.path]
  ELSE LET acc == Walk(dir.entries, 1, dir.path, << >>, pred, NoRoutes)
       IN [threw |-> FALSE, routes |-> acc.routes, probes |-> acc.probes]

\* scanRoutes(appDir, { excludePath }): the routes, and with them the paths
\* excludePath was called with; or the error of the read that failed.  A
\* root that does not exist gives no route.
ScanRoutes(dir, pred) ==
  IF ~dir.exists THEN [threw |-> FALSE, routes |-> << >>, probes |-> << >>]
  ELSE LET listing == ReadDir(dir)
           acc == IF listing.threw THEN Thrown(NoRoutes, dir.path)
                  ELSE Walk(listing.entries, 1, dir.path, << >>, pred, NoRoutes)
       IN IF acc.threw THEN [threw |-> TRUE, error |-> "EACCES", path |-> acc.path]
          ELSE [threw |-> FALSE, routes |-> acc.routes, probes |-> acc.probes]

\* ------------------------------------------------------------ generator

\* The comparators a caller may configure: none, and two that compare the
\* lengths of the route paths (a.routePath.length - b.routePath.length and
\* the reverse).
Comparators == { "undefined", "shortestFirst", "longestFirst" }

\* sortRoutes(a, b) for a configured comparator.
Compare(cmp, a, b) ==
  IF cmp = "shortestFirst" THEN Len(a.routePath) - Len(b.routePath)
  ELSE Len(b.routePath) - Len(a.routePath)

RECURSIVE InsertSorted(_, _, _)
\* x put into the sorted sequence q after every element not greater than it.
InsertSorted(cmp, q, x) ==
  IF q = << >> THEN <<x>>
  ELSE IF Compare(cmp, Head(q), x) <= 0
       THEN <<Head(q)>> \o InsertSorted(cmp, Tail(q), x)
       ELSE <<x>> \o q

RECURSIVE SortUpTo(_, _, _)
SortUpTo(cmp, q, n) ==
  IF n = 0 THEN << >> ELSE InsertSorted(cmp, SortUpTo(cmp, q, n - 1), q[n])

\* routes.sort(sortRoutes): Array.prototype.sort, which is stable.
SortRoutes(cmp, q) == SortUpTo(cmp, q, Len(q))

IsStaticRecord(r) == r.isStatic

IsDynamicRecord(r) == ~r.isStatic

\* generateUtilsFile: the entries of the dynamicPatterns array of utils.ts,
\* { pattern: /<regex>/, href: "<routePath>" }, in the order of dynamicRoutes.
DynamicPatterns(dynamicRoutes) ==
  [k \in 1..Len(dynamicRoutes) |->
     [pattern |-> RoutePathToRegexString(dynamicRoutes[k].routePath),
      href |-> dynamicRoutes[k].routePath]]

\* A mutant of RouteTable: the comparator is not applied.
RouteTableUnsorted(routes, cmp) ==
  DynamicPatterns(SelectSeq(routes, IsDynamicRecord))

\* Steps 2, 3 and 5 of generate for the route table: sort when a comparator
\* is configured, keep the dynamic routes, render dynamicPatterns.
RouteTable(routes, cmp) ==
  LET sorted == IF cmp # "undefined" THEN SortRoutes(cmp, routes) ELSE routes
  IN DynamicPatterns(SelectSeq(sorted, IsDynamicRecord))

\* generateTypesFile: the two href unions and the params map of types.ts.
TypesFile(routes, cmp) ==
  LET sorted == IF cmp # "undefined" THEN SortRoutes(cmp, routes) ELSE routes
      statics == SelectSeq(sorted, IsStaticRecord)
      dynamics == SelectSeq(sorted, IsDynamicRecord)
  IN [staticHrefUnion |-> [k \in 1..Len(statics) |-> statics[k].routePath],
      dynamicHrefUnion |-> [k \in 1..Len(dynamics) |-> dynamics[k].routePath],
      paramsMap |-> [k \in 1..Len(dynamics) |->
                       [routePath |-> dynamics[k].routePath,
                        params |-> dynamics[k].params]]]

\* filePath.replace(/\.(tsx?|jsx?)$/, ""): the path without its extension.
WithoutExtension(filePath) ==
  LET n == Len(filePath)
      EndsWith(ext) == n >= Len(ext) /\ SubSeq(filePath, n - Len(ext) + 1, n) = ext
  IN IF EndsWith(<<".", "t", "s", "x">>) \/ EndsWith(<<".", "j", "s", "x">>)
     THEN SubSeq(filePath, 1, n - 4)
     ELSE IF EndsWith(<<".", "t", "s">>) \/ EndsWith(<<".", "j", "s">>)
     THEN SubSeq(filePath, 1, n - 3)
     ELSE filePath

\* toImportPath: "src/app/user/[id]/page.tsx" becomes "@/app/user/[id]/page".
ToImportPath(filePath) ==
  LET withoutExt == WithoutExtension(filePath)
  IN IF Len(withoutExt) >= 4 /\ SubSeq(withoutExt, 1, 4) = <<"s", "r", "c", "/">>
     THEN <<"@", "/">> \o SubSeq(withoutExt, 5, Len(withoutExt))
     ELSE <<"@", "/">> \o withoutExt

\* The route entries handed to utilsTemplate / routesTemplate.
RouteEntries(rs) ==
  [k \in 1..Len(rs) |->
     [routePath |-> rs[k].routePath,
      importPath |-> ToImportPath(rs[k].filePath),
      params |-> rs[k].params,
      isStatic |-> rs[k].isStatic]]

\* generateUtilsFile / generateRoutesFile: what the template is rendered from.
RouteTableFile(routes, cmp) ==
  LET sorted == IF cmp # "undefined" THEN SortRoutes(cmp, routes) ELSE routes
  IN [dynamicPatterns |-> RouteTable(routes, cmp),
      staticRoutes |-> RouteEntries(SelectSeq(sorted, IsStaticRecord)),
      dynamicRoutes |-> RouteEntries(SelectSeq(sorted, IsDynamicRecord))]

\* A file that is not there.
AbsentFile == [template |-> "none"]

\* A file rendered from a template without arguments.
StaticFile(template) == [template |-> template]

\* The output directory before any run: no generated file.  The record holds
\* the files the tool writes (types.ts, utils.ts, index.ts, routes.ts,
\* route-meta.ts, create-route.ts), one file of the output directory the
\* tool knows nothing of, and route-codegen.config.ts of the working
\* directory; generated tells whether utils.ts holds a route table.
NoOutput ==
  [generated |-> FALSE, types |-> AbsentFile, utils |-> AbsentFile,
   index |-> AbsentFile, routes |-> AbsentFile, routeMeta |-> AbsentFile,
   createRoute |-> AbsentFile, other |-> AbsentFile, config |-> AbsentFile]

\* A variant of Generate: the routes array outlives the run, so that a
\* later run renders the static routes of the earlier one again.
GenerateAccumulating(dir, pred, cmp) ==
  LET scan == ScanRoutes(dir, pred)
      types == TypesFile(scan.routes, cmp)
  IN IF scan.threw THEN outputDir
     ELSE [outputDir EXCEPT !.generated = TRUE,
                            !.types = IF outputDir.generated
                                      THEN [types EXCEPT !.staticHrefUnion =
                                              outputDir.types.staticHrefUnion \o @]
                                      ELSE types,
                            !.utils = RouteTableFile(scan.routes, cmp),
                            !.index = StaticFile("indexTemplate")]

\* generate(config): scan, sort, split, and write types.ts, utils.ts and
\* index.ts to the output directory.  A scan that throws ends the run
\* before anything is written.
Generate(dir, pred, cmp) ==
  LET scan == ScanRoutes(dir, pred)
  IN IF scan.threw THEN outputDir
     ELSE [outputDir EXCEPT !.generated = TRUE,
                            !.types = TypesFile(scan.routes, cmp),
                            !.utils = RouteTableFile(scan.routes, cmp),
                            !.index = StaticFile("indexTemplate")]

\* A variant of GenerateRoutes: utils.ts and index.ts are written as well.
GenerateRoutesAndUtils(dir, pred, cmp) ==
  LET scan == ScanRoutes(dir, pred)
  IN IF scan.threw THEN outputDir
     ELSE [outputDir EXCEPT !.types = TypesFile(scan.routes, cmp),
                            !.routes = RouteTableFile(scan.routes, cmp),
                            !.utils = RouteTableFile(scan.routes, cmp),
                            !.index = StaticFile("indexTemplate")]

\* generate(config) of the init-based generator: types.ts and routes.ts only.
GenerateRoutes(dir, pred, cmp) ==
  LET scan == ScanRoutes(dir, pred)
  IN IF scan.threw THEN outputDir
     ELSE [outputDir EXCEPT !.types = TypesFile(scan.routes, cmp),
                            !.routes = RouteTableFile(scan.routes, cmp)]

\* The promise generate returns: resolved, or rejected with the scan's error.
GenerateResult(dir, pred) ==
  LET scan == ScanRoutes(dir, pred)
  IN IF scan.threw THEN scan ELSE [threw |-> FALSE]

\* initConfig: the six static files, and the config file unless there is one.
InitConfig(files) ==
  [files EXCEPT !.generated = FALSE,
                !.routeMeta = StaticFile("routeMetaTemplate"),
                !.createRoute = StaticFile("createRouteTemplate"),
                !.types = StaticFile("typesInitTemplate"),
                !.routes = StaticFile("routesInitTemplate"),
                !.utils = StaticFile("utilsStaticTemplate"),
                !.index = StaticFile("indexInitTemplate"),
                !.config = IF @ = AbsentFile THEN StaticFile("configContent") ELSE @]

RECURSIVE FirstMatch(_, _, _)
\* The href of the first entry of the table from index k on whose pattern
\* matches the path; null (found = FALSE) when no entry does.
FirstMatch(table, k, path) ==
  IF k > Len(table) THEN [found |-> FALSE]
  ELSE IF RegexMatch(path, table[k].pattern).matched
       THEN [found |-> TRUE, href |-> table[k].href]
       ELSE FirstMatch(table, k + 1, path)

\* matchDynamicRoute(pathname) of the generated utils.ts.
MatchDynamicRoute(table, path) == FirstMatch(table, 1, path)

\* ------------------------------------------------------------- inputs


PatternSegs ==
  { << >>, <<"a">>, <<"[", "a", "]">>, <<"[", "b", "]">>, <<"[", "]">>,
    <<"[", "a">>, <<"b", "]">>, <<"[", "a", "]", "[", "b", "]">>,
    <<"a", ".", "b">>,
    <<"[">> \o ConstructorKey \o <<"]">>, <<"[">> \o ProtoKey \o <<"]">> }

SegLists(pool) == UNION { [1..n -> pool] : n \in 0..MaxSegs }

Patterns == { PathOf(segs) : segs \in SegLists(PatternSegs) }

ParamNames == { <<"a">>, <<"b">> }

ParamValues == { << >>, <<"x">>, <<"x", " ", "y">>, <<"%">>, <<"%", "4", "1">> }

PathSegs ==
  { << >>, <<"x">>, <<"a">>, <<"[", "]">>, <<"[", "a">>, <<"b", "]">>,
    <<"a", ".", "b">>, <<"a", "x", "b">>, <<"%">>, <<"%", "4", "1">> }

Paths == { PathOf(segs) : segs \in SegLists(PathSegs) }

\* The params objects: every map of some of the names, and one whose own
\* key is "__proto__" (as JSON.parse makes it).
ParamMaps ==
  { Supplied(m) : m \in UNION { [ks -> ParamValues] : ks \in SUBSET ParamNames } }
    \cup { Supplied([k \in {ProtoKey} |-> <<"x">>]) }

\* The files of the model's trees.
Files ==
  { File(Chars("page.tsx"), <<"createRoute", "(">>),
    File(Chars("page.ts"), <<"createDynamicRoute", " ", "(">>),
    File(Chars("page.tsx"), <<"createRoute">>),
    File(Chars("page.tsx"), <<"x", "createRoute", "(">>),
    File(Chars("layout.tsx"), <<"createRoute", "(">>),
    File(Chars("page.js"), <<"createRoute", "(">>) }

DirNames ==
  { <<"a">>, <<"[", "a", "]">>, <<"[", "b", "]">>, <<"_", "p">>, <<"(", "g", ")">> }

\* The page file of a route.
RoutePage == File(Chars("page.tsx"), <<"createRoute", "(">>)

\* The listings of up to MaxEntries entries with different names.
Listings(pool) ==
  { l \in UNION { [1..n -> pool] : n \in 0..MaxEntries } :
      \A i, j \in 1..Len(l) : i # j => l[i].name # l[j].name }

\* A directory's listing: files, and directories that hold a route's page.
FlatListings ==
  Listings(Files \cup { Dir(n, <<RoutePage>>) : n \in DirNames })

\* An app directory that is not there.
MissingRoot ==
  [exists |-> FALSE, path |-> Chars("src/app"), entries |-> << >>, readable |-> FALSE]

\* An app directory with its listing.
Root(entries) ==
  [exists |-> TRUE, path |-> Chars("src/app"), entries |-> entries, readable |-> TRUE]

\* The app directory: missing, a flat listing, or one directory with a flat
\* listing of its own.
AppDirs ==
  { MissingRoot }
    \cup { Root(l) : l \in FlatListings \cup { <<Dir(n, w)>> : n \in DirNames, w \in FlatListings } }

LookupPaths == { <<"/", "x">>, <<"/", "x", "/", "y">> }

\* The trees an edit of the app directory leaves.
EditedTrees ==
  { Root(<<RoutePage, Dir(<<"[", "a", "]">>, <<RoutePage>>)>>),
    Root(<<Dir(<<"a">>, <<RoutePage>>)>>) }

\* Entries for the trees in which a read fails: pages and directories that
\* can and that cannot be read, among them a private and a group directory.
FaultPool ==
  { RoutePage, Unreadable(RoutePage),
    Unreadable(File(Chars("layout.tsx"), <<"createRoute", "(">>)),
    Dir(<<"a">>, <<RoutePage>>), Unreadable(Dir(<<"a">>, << >>)),
    Unreadable(Dir(<<"_", "p">>, << >>)), Unreadable(Dir(<<"(", "g", ")">>, << >>)),
    Dir(<<"[", "a", "]">>, <<Unreadable(RoutePage)>>) }

\* The app directories in which a read may fail: a root that cannot be
\* listed, a listing of the pool, and such a listing one directory down.
FaultyAppDirs ==
  { [Root(<< >>) EXCEPT !.readable = FALSE] }
    \cup { Root(l) : l \in Listings(FaultPool) }
    \cup { Root(<<Dir(n, l)>>) :
             n \in { <<"a">>, <<"_", "p">>, <<"(", "g", ")">> }, l \in Listings(FaultPool) }

\* The output directory an earlier run for a tree with one page has left,
\* with a file of the user's beside the generated ones.
StaleOutput ==
  LET routes == ScanRoutes(Root(<<RoutePage>>), "undefined").routes
  IN [NoOutput EXCEPT !.generated = TRUE,
                      !.types = TypesFile(routes, "undefined"),
                      !.utils = RouteTableFile(routes, "undefined"),
                      !.index = StaticFile("indexTemplate"),
                      !.other = StaticFile("hand-written")]

\* -------------------------------------------------------------- machine

\* ---------------------------------------------------------------- watch

\* The delay of the timer that watch sets on a change: setTimeout(..., 100).
DebounceDelay == 100

\* Time passes in steps of half the delay.
TickStep == DebounceDelay \div 2

\* Generations that have started and not settled are counted up to here.
MaxInFlight == 2

\* The changes of a burst are counted up to here.
MaxBurst == 2

\* Before watch runs: no watcher, timeout = null, isGenerating = false.
WatcherOff ==
  [phase |-> "off", timeout |-> "null", live |-> FALSE, left |-> 0,
   isGenerating |-> FALSE, running |-> 0]

\* No change has been notified.
NoBurst == [changes |-> 0, sinceChange |-> 0, regenerated |-> 0]

NotWatching == /\ watcher = WatcherOff /\ burst = NoBurst

NoCall == /\ op = "none" /\ ret = "none"

NoTree ==
  /\ appDir = MissingRoot
  /\ excludePath = "undefined"
  /\ sortRoutes = "undefined"
  /\ outputDir = NoOutput

\* A pattern and a params object to build a path with.
InitBuild ==
  /\ route \in Patterns
  /\ params \in ParamMaps \cup {NoParams}
  /\ pathname = <<Slash>>
  /\ NoTree
  /\ NoCall
  /\ NotWatching

\* A pattern and a path to match.
InitMatch ==
  /\ route \in Patterns
  /\ params = NoParams
  /\ pathname \in Paths
  /\ NoTree
  /\ NoCall
  /\ NotWatching

\* A directory tree, a configuration and a path to look up.
InitScan ==
  /\ route = <<Slash>>
  /\ params = NoParams
  /\ pathname \in LookupPaths
  /\ appDir \in AppDirs
  /\ excludePath \in ExcludePredicates
  /\ sortRoutes \in Comparators
  /\ outputDir = NoOutput
  /\ NoCall
  /\ NotWatching

CallBuildPath ==
  /\ op' = "buildPath"
  /\ ret' = BuildPath(route, params)
  /\ UNCHANGED <<pathInputs, scanInputs, outputDir, watchState>>

CallExtractParamKeys ==
  /\ op' = "extractParamKeys"
  /\ ret' = ExtractParamKeys(route)
  /\ UNCHANGED <<pathInputs, scanInputs, outputDir, watchState>>

CallIsDynamicRoute ==
  /\ op' = "isDynamicRoute"
  /\ ret' = IsDynamicRoute(route)
  /\ UNCHANGED <<pathInputs, scanInputs, outputDir, watchState>>

CallRouteToRegex ==
  /\ op' = "routeToRegex"
  /\ ret' = RouteToRegex(route)
  /\ UNCHANGED <<pathInputs, scanInputs, outputDir, watchState>>

CallRoutePathToRegexString ==
  /\ op' = "routePathToRegexString"
  /\ ret' = RoutePathToRegexString(route)
  /\ UNCHANGED <<pathInputs, scanInputs, outputDir, watchState>>

CallMatchRoute ==
  /\ op' = "matchRoute"
  /\ ret' = MatchRoute(pathname, route)
  /\ UNCHANGED <<pathInputs, scanInputs, outputDir, watchState>>

CallScanRoutes ==
  /\ op' = "scanRoutes"
  /\ ret' = ScanRoutes(appDir, excludePath)
  /\ UNCHANGED <<pathInputs, scanInputs, outputDir, watchState>>

\* A directory tree in which reads may fail, and an output directory.
InitFault ==
  /\ route = <<Slash>>
  /\ params = NoParams
  /\ pathname = <<Slash>>
  /\ appDir \in FaultyAppDirs
  /\ excludePath \in ExcludePredicates
  /\ sortRoutes = "undefined"
  /\ outputDir \in { NoOutput, StaleOutput }
  /\ NoCall
  /\ NotWatching

CallGenerate ==
  /\ op' = "generate"
  /\ ret' = GenerateResult(appDir, excludePath)
  /\ outputDir' = Generate(appDir, excludePath, sortRoutes)
  /\ UNCHANGED <<pathInputs, scanInputs, watchState>>

CallGenerateRoutes ==
  /\ op' = "generateRoutes"
  /\ ret' = GenerateResult(appDir, excludePath)
  /\ outputDir' = GenerateRoutes(appDir, excludePath, sortRoutes)
  /\ UNCHANGED <<pathInputs, scanInputs, watchState>>

CallInitConfig ==
  /\ op' = "initConfig"
  /\ ret' = [threw |-> FALSE]
  /\ outputDir' = InitConfig(outputDir)
  /\ UNCHANGED <<pathInputs, scanInputs, watchState>>

\* The generated lookup can be called once utils.ts has been written.
CallMatchDynamicRoute ==
  /\ outputDir.generated
  /\ op' = "matchDynamicRoute"
  /\ ret' = MatchDynamicRoute(outputDir.utils.dynamicPatterns, pathname)
  /\ UNCHANGED <<pathInputs, scanInputs, outputDir, watchState>>

NextPath ==
  \/ CallBuildPath
  \/ CallMatchRoute
  \/ CallRouteToRegex
  \/ CallRoutePathToRegexString
  \/ CallExtractParamKeys
  \/ CallIsDynamicRoute

NextScan ==
  \/ CallScanRoutes
  \/ CallGenerate
  \/ CallMatchDynamicRoute

Next == NextPath \/ NextScan \/ CallGenerateRoutes \/ CallInitConfig

\* The calls of the path builder on a pattern and a params object.
BuildSpec == InitBuild /\ [][NextPath]_vars

\* The calls of the path builder on a pattern and a path.
MatchSpec == InitMatch /\ [][NextPath]_vars

\* The scanner, the generator and the generated lookup on a directory tree.
ScanSpec == InitScan /\ [][NextScan]_vars

\* A directory tree with one level of directories, and a configuration.
InitGenerate ==
  /\ route = <<Slash>>
  /\ params = NoParams
  /\ pathname = <<Slash>>
  /\ appDir \in { Root(l) : l \in FlatListings }
  /\ excludePath \in { "undefined", "groups" }
  /\ sortRoutes \in Comparators
  /\ outputDir = NoOutput
  /\ NoCall
  /\ NotWatching

\* The user adds, removes or moves pages: the tree is another one.
EditTree ==
  /\ appDir' \in EditedTrees
  /\ appDir' # appDir
  /\ op' = "editTree"
  /\ ret' = "none"
  /\ UNCHANGED <<pathInputs, excludePath, sortRoutes, outputDir, watchState>>

NextGenerate ==
  \/ CallGenerate
  \/ CallGenerateRoutes
  \/ EditTree

\* Runs of the two generators with edits of the tree between them.
GenerateSpec == InitGenerate /\ [][NextGenerate]_vars

\* A directory tree, and an output directory that may hold a file of the
\* user's and a working directory that may hold a configuration file.
InitCli ==
  /\ route = <<Slash>>
  /\ params = NoParams
  /\ pathname = <<Slash>>
  /\ appDir \in { Root(l) : l \in FlatListings }
  /\ excludePath \in { "undefined", "groups" }
  /\ sortRoutes = "undefined"
  /\ outputDir \in { NoOutput,
                      [NoOutput EXCEPT !.other = StaticFile("hand-written")],
                      [NoOutput EXCEPT !.config = StaticFile("hand-written")] }
  /\ NoCall
  /\ NotWatching

\* The user edits a helper that init has stamped out.
EditHelper ==
  /\ outputDir.createRoute = StaticFile("createRouteTemplate")
  /\ outputDir' = [outputDir EXCEPT !.createRoute = StaticFile("hand-written")]
  /\ op' = "editHelper"
  /\ ret' = "none"
  /\ UNCHANGED <<pathInputs, scanInputs, watchState>>

NextCli ==
  \/ CallInitConfig
  \/ CallGenerateRoutes
  \/ EditHelper
  \/ EditTree

\* The init command, runs of the init-based generator, and the user's edits.
CliSpec == InitCli /\ [][NextCli]_vars

NextFault ==
  \/ CallScanRoutes
  \/ CallGenerate
  \/ CallGenerateRoutes

\* The scanner and the two generators on a tree in which reads may fail.
FaultSpec == InitFault /\ [][NextFault]_vars

\* The classification of a pattern, by the path builder and by the scanner.
NextClassify ==
  \/ CallIsDynamicRoute
  \/ CallExtractParamKeys
  \/ CallScanRoutes

ClassifySpec == (InitBuild \/ InitScan) /\ [][NextClassify]_vars

\* Every call on every input.
Spec == (InitBuild \/ InitMatch \/ InitScan \/ InitFault) /\ [][Next]_vars

\* ------------------------------------------------------------ properties

\* The set of elements of a sequence.
Range(q) == { q[i] : i \in 1..Len(q) }

\* The segment holds no bracket token at all, looked at on its own: literal
\* text, empty and unterminated brackets included.
IsLiteralSegment(seg) == \A i \in 1..Len(seg) : PlaceholderAt(seg, i) = 0

RECURSIVE Spliced(_, _, _, _, _)
\* The pattern r from position pos on with its k-th and later bracket tokens
\* (ms, as positions) replaced by the encoded values of m, the rest copied.
Spliced(r, ms, k, pos, m) ==
  IF k > Len(ms) THEN SubSeq(r, pos, Len(r))
  ELSE SubSeq(r, pos, ms[k].from - 1)
         \o EncodeURIComponent(m[SubSeq(r, ms[k].from + 1, ms[k].to - 1)])
         \o Spliced(r, ms, k + 1, ms[k].to + 1, m)

\* C1: with a params object supplied, buildPath raises the missing-parameter
\* error exactly when some placeholder name of the pattern is no key of the
\* object (an empty string value is no failure); when it does not fail, every
\* placeholder is replaced by its percent-encoded value and the literal text
\* is unchanged.
C1_MissingParamIff ==
  (op = "buildPath" /\ params.given) =>
    LET names == Range(ExtractParamKeys(route))
    IN /\ ret.threw <=> (\E n \in names : n \notin DOMAIN params.map)
       /\ ret.threw => ret.error = "Missing param"
       /\ ~ret.threw =>
            ret.value = Spliced(route, PlaceholderScan(route, 1), 1, 1, params.map)

\* Every character of the value is unreserved, or the value's "%" start
\* well-formed escapes: a URL-safe or properly-encoded value without "/".
IsUrlSafeValue(v) ==
  \A i \in 1..Len(v) :
    /\ v[i] \notin {Slash, " ", "[", "]", "{", "}"}
    /\ v[i] = "%" => (i + 2 <= Len(v) /\ v[i + 1] \in HexDigits /\ v[i + 2] \in HexDigits)

\* Every placeholder of the pattern is a whole segment: it starts the
\* pattern or follows a "/", and ends the pattern or precedes a "/".
PlaceholdersAreSegments(r) ==
  \A m \in Range(PlaceholderScan(r, 1)) :
    /\ m.from = 1 \/ r[m.from - 1] = Slash
    /\ m.to = Len(r) \/ r[m.to + 1] = Slash

\* The round trip of the pattern and the params object of the state: the
\* map names exactly the placeholders and every value is URL-safe.
RoundTripCase ==
  /\ op = "buildPath" /\ params.given /\ PlaceholdersAreSegments(route)
  /\ Range(ExtractParamKeys(route)) = DOMAIN params.map
  /\ \A n \in DOMAIN params.map : IsUrlSafeValue(params.map[n])

RoundTripHolds ==
  /\ ~ret.threw
  /\ MatchRoute(ret.value, route) = [threw |-> FALSE, matched |-> TRUE, value |-> params.map]

\* C2: for every pattern with names n1..nk and every map of URL-safe values
\* without "/", matchRoute(buildPath(p, values), p) is exactly the map.
C2_RoundTrip == RoundTripCase => RoundTripHolds

\* C3: matchRoute returns no-match for every path whose number of segments
\* differs from the pattern's or in which a literal segment of the pattern
\* differs from the path's segment at the same position (so "/a" does not
\* match "/a/").
C3_NoMatchOnSegmentMismatch ==
  op = "matchRoute" =>
    LET ps == SegmentsOf(route)
        xs == SegmentsOf(pathname)
    IN (\/ Len(ps) # Len(xs)
        \/ \E k \in 1..Len(ps) : IsLiteralSegment(ps[k]) /\ ps[k] # xs[k])
       => ~(~ret.threw /\ ret.matched)

\* C4: extractParamKeys returns the placeholder names left to right and no
\* name from a bracket pair that spans segments: no name holds a "/".
C4_NoKeySpansSegments ==
  op = "extractParamKeys" =>
    /\ ret = Concat([k \in 1..Len(SegmentsOf(route)) |->
                       ExtractParamKeys(SegmentsOf(route)[k])])
    /\ \A k \in 1..Len(ret) : Slash \notin Range(ret[k])

\* Every bracket of the pattern is empty or unterminated in its segment.
OnlyLiteralBrackets(r) ==
  /\ \A seg \in Range(SegmentsOf(r)) : IsLiteralSegment(seg)
  /\ \E i \in 1..Len(r) : r[i] = "["

\* C5: empty and unterminated brackets are literal text for every pattern
\* operation: no name, no capture group, a match of the identical text only,
\* and buildPath leaves them as they are.
C5_LiteralBrackets ==
  OnlyLiteralBrackets(route) =>
    /\ op = "extractParamKeys" => ret = << >>
    /\ op = "isDynamicRoute" => ret = FALSE
    /\ op \in {"routeToRegex", "routePathToRegexString"} =>
         Group \notin Range(ParseRegex(ret, 1))
    /\ op = "matchRoute" => (~ret.threw /\ (ret.matched <=> pathname = route))
    /\ (op = "buildPath" /\ params.given) => (~ret.threw /\ ret.value = route)

\* C6: isDynamicRoute(p) is true exactly when extractParamKeys(p) is not
\* empty, and every record of scanRoutes has params = extractParamKeys of its
\* routePath and isStatic true exactly when params is empty.
C6_DynamicIffKeys ==
  /\ op = "isDynamicRoute" => (ret <=> ExtractParamKeys(route) # << >>)
  /\ op = "scanRoutes" =>
       \A r \in Range(ret.routes) :
         /\ r.params = ExtractParamKeys(r.routePath)
         /\ r.isStatic <=> r.params = << >>
         /\ r.isStatic <=> ~IsDynamicRoute(r.routePath)

C6_Witness ==
  /\ op = "scanRoutes"
  /\ \E r \in Range(ret.routes) : r.isStatic
  /\ \E r \in Range(ret.routes) : ~r.isStatic /\ r.params # << >>

HrefIsDynamic(r) == IsDynamicRoute(r.routePath)

\* The route paths of the dynamic records of the scan, in the order the
\* comparator (when there is one) leaves them in.
DynamicHrefsInOrder ==
  LET routes == ScanRoutes(appDir, excludePath).routes
      ordered == IF sortRoutes = "undefined" THEN routes
                 ELSE SortRoutes(sortRoutes, routes)
      dynamics == SelectSeq(ordered, HrefIsDynamic)
  IN [k \in 1..Len(dynamics) |-> dynamics[k].routePath]

\* C7: the lookup returns the route pattern of the first entry, in array
\* order, whose matchable pattern matches the path, and no-match when none
\* does; the array holds the dynamic records of the scan in the order the
\* optional comparator leaves them in.
C7_FirstMatchWins ==
  op = "matchDynamicRoute" =>
    LET hrefs == DynamicHrefsInOrder
        table == outputDir.utils.dynamicPatterns
        hits == { k \in 1..Len(hrefs) :
                    RegexMatch(pathname, RouteToRegex(hrefs[k])).matched }
    IN /\ [k \in 1..Len(table) |-> table[k].href] = hrefs
       /\ hits = {} => ~ret.found
       /\ hits # {} =>
            /\ ret.found
            /\ ret.href = hrefs[CHOOSE k \in hits : \A m \in hits : k <= m]

\* The two-segment path resolves to the two-placeholder pattern although the
\* one-placeholder pattern comes first in the array.
C7_Witness ==
  /\ op = "matchDynamicRoute"
  /\ sortRoutes = "shortestFirst"
  /\ pathname = <<"/", "x", "/", "y">>
  /\ Len(outputDir.utils.dynamicPatterns) = 2
  /\ outputDir.utils.dynamicPatterns[1].href = <<"/", "[", "a", "]">>
  /\ ret.found
  /\ ret.href = <<"/", "[", "a", "]", "/", "[", "b", "]">>

RECURSIVE TreeFiles(_, _)
\* The files of a listing and of the directories below it, each with the
\* names of the directories that lead to it.
TreeFiles(entries, segs) ==
  UNION { IF entries[k].isDir
          THEN TreeFiles(entries[k].entries, Append(segs, entries[k].name))
          ELSE { [segs |-> segs, file |-> entries[k]] } : k \in 1..Len(entries) }

RECURSIVE TreeDirs(_, _)
\* The directories of a listing and below, each as the names that lead to it.
TreeDirs(entries, segs) ==
  UNION { IF entries[k].isDir
          THEN { Append(segs, entries[k].name) }
                 \cup TreeDirs(entries[k].entries, Append(segs, entries[k].name))
          ELSE {} : k \in 1..Len(entries) }

\* The caller's predicate excludes the cumulative path of the directories.
Excluded(segs) ==
  excludePath # "undefined" /\ ExcludePathHolds(excludePath, PathOf(segs))

\* No directory on the way is private or excluded.
Visited(segs) ==
  \A i \in 1..Len(segs) :
    ~IsPrivateName(segs[i]) /\ ~Excluded(SubSeq(segs, 1, i))

\* C8: scanRoutes never descends into a directory whose name begins with
\* "_": no record's route pattern has a segment that starts with "_".
C8_PrivateNeverScanned ==
  op = "scanRoutes" =>
    \A r \in Range(ret.routes) :
      \A seg \in Range(SegmentsOf(r.routePath)) : ~IsPrivateName(seg)

\* A marked page lies beneath a private directory, two directories down.
C8_Witness ==
  /\ op = "scanRoutes"
  /\ excludePath = "undefined"
  /\ \E f \in TreeFiles(appDir.entries, << >>) :
       /\ Len(f.segs) = 2 /\ ~IsPrivateName(f.segs[1]) /\ IsPrivateName(f.segs[2])
       /\ f.file = RoutePage
  /\ Len(ret.routes) = 1

HasCreatorCall(content) ==
  \E i, j \in 1..Len(content) :
    /\ i < j
    /\ content[i] = "createRoute" \/ content[i] = "createDynamicRoute"
    /\ i > 1 => content[i - 1] \in {" ", "(", "."}
    /\ content[j] = "("
    /\ SubSeq(content, i + 1, j - 1) \in { << >>, <<" ">>, <<" ", " ">> }

\* C10: scanRoutes returns a record for a file exactly when the file lies in
\* a visited directory, is named page.tsx or page.ts, and its content holds a
\* call-like token for createRoute or createDynamicRoute.
C10_RecordIffMarkedPage ==
  op = "scanRoutes" =>
    LET expected ==
          { f \in TreeFiles(appDir.entries, << >>) :
              /\ Visited(f.segs)
              /\ f.file.name \in { Chars("page.tsx"), Chars("page.ts") }
              /\ HasCreatorCall(f.file.content) }
    IN /\ { <<r.filePath, r.routePath>> : r \in Range(ret.routes) } =
            { <<appDir.path \o JoinSegs(Append(f.segs, f.file.name)), PathOf(f.segs)>> :
                f \in expected }
       /\ Len(ret.routes) = Cardinality(expected)

\* A page without the marker and a marked file of another name give nothing.
C10_Witness ==
  /\ op = "scanRoutes"
  /\ excludePath = "undefined"
  /\ \E f \in TreeFiles(appDir.entries, << >>) :
       /\ f.segs = <<<<"a">>>> /\ f.file.name = Chars("page.tsx")
       /\ ~HasCreatorCall(f.file.content)
  /\ \E f \in TreeFiles(appDir.entries, << >>) :
       /\ f.file.name = Chars("layout.tsx") /\ HasCreatorCall(f.file.content)
  /\ ret.routes = << >>


RECURSIVE FilesInOrder(_, _)
\* The files of a listing and of the directories below it in depth-first
\* order: the entries as listed, a directory's files where the directory is.
FilesInOrder(entries, segs) ==
  IF entries = << >> THEN << >>
  ELSE LET e == Head(entries)
       IN (IF e.isDir THEN FilesInOrder(e.entries, Append(segs, e.name))
           ELSE << [segs |-> segs, file |-> e] >>)
          \o FilesInOrder(Tail(entries), segs)

\* The file gives a record: a marked page in a directory that is walked.
GivesRecord(f) ==
  /\ Visited(f.segs)
  /\ f.file.name \in { Chars("page.tsx"), Chars("page.ts") }
  /\ HasCreatorCall(f.file.content)

\* C11: the route pattern of a record is "/" and the names of the
\* directories between the root and the page file joined with "/" ("/" for
\* the root's own page), and the records come in depth-first order, the
\* entries of a directory in the order the filesystem lists them.
C11_DepthFirstOrder ==
  (op = "scanRoutes" /\ ~ret.threw) =>
    LET pages == SelectSeq(FilesInOrder(appDir.entries, << >>), GivesRecord)
    IN /\ Len(ret.routes) = Len(pages)
       /\ \A k \in 1..Len(pages) :
            /\ ret.routes[k].routePath =
                 (IF pages[k].segs = << >> THEN <<Slash>>
                  ELSE Concat([i \in 1..Len(pages[k].segs) |->
                                 <<Slash>> \o pages[k].segs[i]]))
            /\ ret.routes[k].filePath =
                 appDir.path \o JoinSegs(Append(pages[k].segs, pages[k].file.name))

\* The page of a directory listed first comes before the root's own page.
C11_Witness ==
  /\ op = "scanRoutes"
  /\ ~ret.threw
  /\ Len(ret.routes) = 2
  /\ ret.routes[1].routePath = <<"/", "[", "a", "]">>
  /\ ret.routes[2].routePath = <<Slash>>

\* C12: with a root directory that does not exist scanRoutes returns the
\* empty sequence and raises nothing, and generate completes and writes
\* artifacts that describe no route.
C12_MissingRootIsEmpty ==
  ~appDir.exists =>
    /\ op = "scanRoutes" => (~ret.threw /\ ret.routes = << >>)
    /\ op = "generate" =>
         /\ ~ret.threw
         /\ outputDir.types =
              [staticHrefUnion |-> << >>, dynamicHrefUnion |-> << >>, paramsMap |-> << >>]
         /\ outputDir.utils =
              [dynamicPatterns |-> << >>, staticRoutes |-> << >>, dynamicRoutes |-> << >>]
         /\ outputDir.index # AbsentFile

C12_Witness ==
  /\ ~appDir.exists
  /\ op = "generate"
  /\ ~ret.threw
  /\ outputDir.generated
  /\ outputDir.types.staticHrefUnion = << >>


RECURSIVE TreeDirEntries(_, _)
\* The directories of a listing and below, each with the names that lead to
\* it, its own name included.
TreeDirEntries(entries, segs) ==
  UNION { IF entries[k].isDir
          THEN { [segs |-> Append(segs, entries[k].name), dir |-> entries[k]] }
                 \cup TreeDirEntries(entries[k].entries, Append(segs, entries[k].name))
          ELSE {} : k \in 1..Len(entries) }

\* A directory the walk enters or a page file it opens cannot be read.
SomeReadFails ==
  /\ appDir.exists
  /\ \/ ~appDir.readable
     \/ \E d \in TreeDirEntries(appDir.entries, << >>) :
          Visited(d.segs) /\ ~d.dir.readable
     \/ \E f \in TreeFiles(appDir.entries, << >>) :
          /\ Visited(f.segs)
          /\ f.file.name \in { Chars("page.tsx"), Chars("page.ts") }
          /\ ~f.file.readable

\* A call of the scanner or of a generator on a tree in which a read fails.
FailingRun ==
  /\ op' = "scanRoutes" =>
       /\ ret'.threw <=> SomeReadFails
       /\ ret'.threw => "routes" \notin DOMAIN ret'
  /\ (op' \in {"generate", "generateRoutes"} /\ SomeReadFails) =>
       /\ ret'.threw
       /\ outputDir' = outputDir

RepeatedRun ==
  (op \in {"generate", "generateRoutes"} /\ op' = op) => outputDir' = outputDir

\* What a run writes is a function of the tree and the configuration.
RunOfCurrentTree ==
  LET routes == ScanRoutes(appDir', excludePath').routes
  IN /\ op' = "generate" =>
          /\ outputDir'.types = TypesFile(routes, sortRoutes')
          /\ outputDir'.utils = RouteTableFile(routes, sortRoutes')
     /\ op' = "generateRoutes" =>
          /\ outputDir'.types = TypesFile(routes, sortRoutes')
          /\ outputDir'.routes = RouteTableFile(routes, sortRoutes')

HandOwnedFiles == { "routeMeta", "createRoute", "utils", "index", "other", "config" }

\* A run of the generator leaves the hand-owned files as they are.
GenerateFrame ==
  op' = "generateRoutes" => \A f \in HandOwnedFiles : outputDir'[f] = outputDir[f]

NoFilename == <<"null">>

EndsWith(filename, suffix) ==
  /\ filename # NoFilename
  /\ Len(filename) >= Len(suffix)
  /\ SubSeq(filename, Len(filename) - Len(suffix) + 1, Len(filename)) = suffix

\* A variant of IsWatchedFile: every notification counts as a change.
IsWatchedFileAny(filename) == TRUE

\* The notifications watch reacts to: those of .tsx and .ts files.
IsWatchedFile(filename) ==
  EndsWith(filename, <<".", "t", "s", "x">>) \/ EndsWith(filename, <<".", "t", "s">>)

\* A variant of MayGenerate: the callback of the timer never looks at
\* isGenerating.
MayGenerateAlways(w) == TRUE

\* The callback of the timer goes on unless a generation is under way.
MayGenerate(w) == ~w.isGenerating

\* What a callback of watch returns when nothing is thrown.
Returned == [threw |-> FALSE]

\* The file names of the notifications.
Filenames ==
  { Chars("page.tsx"), Chars("page.ts"), Chars("page.js"),
    <<"a", ".", "c", "s", "s">>, NoFilename }

\* The trees of the watched app directory: a page, two pages, and a root
\* that can no longer be read.
WatchedTrees ==
  EditedTrees \cup { Root(<<RoutePage>>), [Root(<< >>) EXCEPT !.readable = FALSE] }

\* The app directory and the output directory when watch is called.
InitWatch ==
  /\ route = <<Slash>>
  /\ params = NoParams
  /\ pathname = <<Slash>>
  /\ appDir \in WatchedTrees \cup { MissingRoot }
  /\ excludePath = "undefined"
  /\ sortRoutes = "undefined"
  /\ outputDir \in { NoOutput, InitConfig(NoOutput) }
  /\ op = "none"
  /\ ret = Returned
  /\ NotWatching

\* watch up to the registration of the watcher: the initial generation,
\* then fs.watch on the app directory.  If the generation throws, or the
\* directory is not there to be watched, watch rejects and main exits.
StartWatch ==
  /\ watcher.phase = "off"
  /\ op' = "watch"
  /\ ret' = GenerateResult(appDir, excludePath)
  /\ outputDir' = GenerateRoutes(appDir, excludePath, sortRoutes)
  /\ watcher' = [watcher EXCEPT
                   !.phase = IF ret'.threw \/ ~appDir.exists THEN "exited"
                             ELSE "watching"]
  /\ UNCHANGED <<pathInputs, scanInputs, burst>>

\* The callback of fs.watch.  A notification of another file returns at
\* once; one of a .ts or .tsx file clears the timer, if there is one, and
\* sets a new one.
Notify(filename) ==
  /\ watcher.phase = "watching"
  /\ op' = "change"
  /\ ret' = [threw |-> FALSE, filename |-> filename]
  /\ IF ~IsWatchedFile(filename)
       THEN UNCHANGED watchState
       ELSE /\ watcher' = [watcher EXCEPT !.timeout = "handle", !.live = TRUE,
                                          !.left = DebounceDelay]
            /\ burst' = [changes |-> IF watcher.live
                                       THEN IF burst.changes < MaxBurst
                                              THEN burst.changes + 1
                                              ELSE MaxBurst
                                       ELSE 1,
                         sinceChange |-> 0,
                         regenerated |-> 0]
  /\ UNCHANGED <<pathInputs, scanInputs, outputDir>>

\* Time passes: the timer comes nearer to firing.
Tick ==
  /\ watcher.phase = "watching"
  /\ burst.changes > 0
  /\ burst.sinceChange < DebounceDelay
  /\ op' = "tick"
  /\ ret' = Returned
  /\ watcher' = [watcher EXCEPT
                   !.left = IF @ > TickStep THEN @ - TickStep ELSE 0]
  /\ burst' = [burst EXCEPT
                 !.sinceChange = IF @ + TickStep < DebounceDelay THEN @ + TickStep
                                 ELSE DebounceDelay]
  /\ UNCHANGED <<pathInputs, scanInputs, outputDir>>

\* The timer is due and its callback can run.
TimerDue ==
  /\ watcher.phase = "watching"
  /\ watcher.live
  /\ watcher.left = 0

\* The callback of the timer returns because a generation is under way.
TimerDiscarded ==
  /\ op' = "timer"
  /\ ret' = [threw |-> FALSE, timer |-> "discarded"]
  /\ watcher' = [watcher EXCEPT !.live = FALSE]
  /\ UNCHANGED <<pathInputs, scanInputs, outputDir, burst>>

\* The callback of the timer up to its await: isGenerating = true and the
\* call of generate, which scans and writes before it returns its promise.
TimerFires ==
  /\ TimerDue
  /\ IF ~MayGenerate(watcher)
       THEN TimerDiscarded
       ELSE /\ watcher.running < MaxInFlight
            /\ op' = "timer"
            /\ ret' = [threw |-> FALSE, timer |-> "started"]
            /\ watcher' = [watcher EXCEPT !.live = FALSE, !.isGenerating = TRUE,
                                          !.running = @ + 1]
            /\ burst' = [burst EXCEPT !.regenerated = @ + 1]
            /\ outputDir' = GenerateRoutes(appDir, excludePath, sortRoutes)
            /\ UNCHANGED <<pathInputs, scanInputs>>

\* The callback of the timer after its await: the promise of generate has
\* settled, an error has been logged, isGenerating = false.
GenerateSettles ==
  /\ watcher.running > 0
  /\ op' = "settled"
  /\ ret' = GenerateResult(appDir, excludePath)
  /\ watcher' = [watcher EXCEPT !.isGenerating = FALSE, !.running = @ - 1]
  /\ UNCHANGED <<pathInputs, scanInputs, outputDir, burst>>

\* The callback of the timer from its start to its end, as far as the
\* timer, isGenerating and the count of regenerations go.  generate has no
\* await in its body, so its promise is settled when the callback awaits
\* it, and the rest of the callback runs before any other callback does:
\* isGenerating is false again when the callback ends.
TimerExpires ==
  /\ TimerDue
  /\ IF ~MayGenerate(watcher)
       THEN /\ watcher' = [watcher EXCEPT !.live = FALSE]
            /\ burst' = burst
       ELSE /\ watcher' = [watcher EXCEPT !.live = FALSE, !.isGenerating = FALSE]
            /\ burst' = [burst EXCEPT !.regenerated = @ + 1]

\* The callback of the timer from its start to its end.
RunTimer ==
  /\ TimerExpires
  /\ op' = "timer"
  /\ IF ~MayGenerate(watcher)
       THEN /\ ret' = [threw |-> FALSE, timer |-> "discarded"]
            /\ outputDir' = outputDir
       ELSE /\ ret' = [threw |-> FALSE, timer |-> "started"]
            /\ outputDir' = GenerateRoutes(appDir, excludePath, sortRoutes)
  /\ UNCHANGED <<pathInputs, scanInputs>>

\* The user edits the watched tree.
EditWatchedTree ==
  /\ appDir' \in WatchedTrees
  /\ appDir' # appDir
  /\ op' = "editTree"
  /\ ret' = Returned
  /\ UNCHANGED <<pathInputs, excludePath, sortRoutes, outputDir, watchState>>

NextWatch ==
  \/ StartWatch
  \/ \E filename \in Filenames : Notify(filename)
  \/ Tick
  \/ TimerFires
  \/ GenerateSettles
  \/ EditWatchedTree

\* watch with a generation that may take any time to settle.
WatchSpec == InitWatch /\ [][NextWatch]_vars

NextDebounce ==
  \/ StartWatch
  \/ \E filename \in Filenames : Notify(filename)
  \/ Tick
  \/ RunTimer
  \/ EditWatchedTree

\* watch with the generator as it is; time passes, and a timer that is due
\* expires.
DebounceSpec ==
  /\ InitWatch
  /\ [][NextDebounce]_vars
  /\ WF_watchState(Tick)
  /\ WF_watchState(TimerExpires)

\* --------------------------------------------------- claims on watch mode

\* At most one generation is under way, and isGenerating says whether one is.
OneInFlight ==
  /\ watcher.running <= 1
  /\ watcher.isGenerating <=> watcher.running = 1

\* A timer that fires while a generation is under way does nothing: it
\* starts no generation, writes no file and leaves no timer behind.
DiscardedInFlight ==
  (watcher.running > 0 /\ op' = "timer")
    => /\ ret'.timer = "discarded"
       /\ watcher'.running = watcher.running
       /\ watcher'.isGenerating
       /\ ~watcher'.live
       /\ outputDir' = outputDir
       /\ burst' = burst

\* C16: in watch mode two executions of generate never overlap: at most one
\* generation is in flight at any time, and a timer that fires while one is
\* in flight is discarded, neither run nor queued.
C16_OneGenerationAtATime == []OneInFlight /\ [][DiscardedInFlight]_vars

\* A timer has fired while a generation was in flight, and was discarded.
C16_Witness ==
  /\ op = "timer"
  /\ ret.timer = "discarded"
  /\ watcher.running = 1
  /\ watcher.isGenerating
  /\ ~watcher.live

\* The file name ends in .ts or .tsx.
IsTypeScriptName(filename) ==
  /\ filename # NoFilename
  /\ Len(filename) >= 3
  /\ \/ SubSeq(filename, Len(filename) - 2, Len(filename)) = <<".", "t", "s">>
     \/ /\ Len(filename) >= 4
        /\ SubSeq(filename, Len(filename) - 3, Len(filename)) = <<".", "t", "s", "x">>

\* While the timer of a burst is set nothing has been regenerated for it,
\* and once it has fired exactly one regeneration has started.
OneRegenerationPerBurst ==
  /\ burst.regenerated <= 1
  /\ watcher.live => burst.regenerated = 0
  /\ (burst.changes > 0 /\ ~watcher.live) => burst.regenerated = 1

\* A regeneration starts only when the delay has passed since the last
\* notification of a .ts or .tsx file.
StartsAfterDelay ==
  (op' = "timer" /\ ret'.timer = "started") => burst.sinceChange >= DebounceDelay

\* A notification of another file starts nothing and leaves the timer as
\* it is.
OtherFilesIgnored ==
  (op' = "change" /\ ~IsTypeScriptName(ret'.filename))
    => /\ watcher' = watcher
       /\ burst' = burst
       /\ outputDir' = outputDir

\* A change has just been notified.
JustChanged == op = "change" /\ IsTypeScriptName(ret.filename)

\* C17: a burst of .ts/.tsx notifications, each arriving before the timer of
\* the one before has fired, causes exactly one regeneration, started only
\* after the delay has passed since the last of them; notifications of other
\* files start nothing and do not reset the timer.
C17_DebouncedOnce ==
  /\ []OneRegenerationPerBurst
  /\ [][StartsAfterDelay /\ OtherFilesIgnored]_vars
  /\ []<>(~watcher.live \/ JustChanged)

\* A burst of two or more changes has been followed by its one regeneration.
C17_Witness ==
  /\ op = "timer"
  /\ ret.timer = "started"
  /\ burst.changes >= 2
  /\ burst.regenerated = 1
  /\ burst.sinceChange = DebounceDelay

\* ------------------------------------------ claims on the two converters

\* The number of capture groups of a regex source.
GroupCount(src) ==
  LET ts == ParseRegex(src, 1)
  IN Cardinality({ i \in 1..Len(ts) : ts[i] = Group })

\* Both regexes of the pattern hold one capture group per parameter name.
OneGroupPerKey ==
  /\ GroupCount(RouteToRegex(route)) = Len(ExtractParamKeys(route))
  /\ GroupCount(RoutePathToRegexString(route)) = Len(ExtractParamKeys(route))

\* A match of the source against the path captures, per parameter name in
\* order, a run of one or more characters other than "/".
CapturesAreSegments(src) ==
  LET m == RegexMatch(pathname, src)
  IN m.matched
       => /\ Len(m.captures) = Len(ExtractParamKeys(route))
          /\ \A i \in 1..Len(m.captures) :
               /\ m.captures[i] # << >>
               /\ \A j \in 1..Len(m.captures[i]) : m.captures[i][j] # Slash

\* The two regexes of the pattern accept the same paths, with the same
\* captures.
SameAcceptance ==
  RegexMatch(pathname, RouteToRegex(route))
    = RegexMatch(pathname, RoutePathToRegexString(route))

\* A successful matchRoute returns a map whose keys are the parameter names.
KeysAreParamNames ==
  (op = "matchRoute" /\ ~ret.threw /\ ret.matched)
    => DOMAIN ret.value = Range(ExtractParamKeys(route))

\* C18: routeToRegex and routePathToRegexString hold exactly as many capture
\* groups as extractParamKeys returns names, in the same order, each group
\* matching one non-empty run of characters other than "/"; the two accept
\* the same paths; and a successful matchRoute returns a map whose key set
\* is exactly the parameter names.
C18_GroupsAreParamKeys ==
  /\ OneGroupPerKey
  /\ CapturesAreSegments(RouteToRegex(route))
  /\ CapturesAreSegments(RoutePathToRegexString(route))
  /\ SameAcceptance
  /\ KeysAreParamNames

\* C19: matchRoute never raises: for every path and pattern it returns the
\* parameter map or no-match, a captured segment with a "%" that starts no
\* valid percent-encoding included.
C19_MatchRouteTotal == op = "matchRoute" => ~ret.threw

====
